---- MODULE Spec2Model ----
(***************************************************************************)
(* A model of the namespaced cache client of cache.go: the derivation of   *)
(* the store key, the commands each operation sends to the store over a    *)
(* pooled connection, the SCAN loops of Clear and GetKeys, and the pool's   *)
(* bounded, blocking borrow.                                                *)
(*                                                                         *)
(* A Go string is a sequence of one-character strings.  A Go value is a     *)
(* record [t |-> type, v |-> content].  The store and the pool are the      *)
(* parts of the environment the client talks to; they are modelled by what  *)
(* the commands the client sends do.                                        *)
(***************************************************************************)
EXTENDS Integers, Sequences, FiniteSets, TLC

VARIABLES
    Separator,  \* the package variable Separator
    store,      \* the remote store: present key -> [val, ttl]
    inUse,      \* pool slots taken by borrowed connections
    waitq,      \* callers parked in pool.Get, in arrival order
    call,       \* caller -> the call it is in (locals, position, result)
    written,    \* history: key -> Go value of the last successful Set, untouched since
    deleted,    \* history: the keys of the successful Deletes with no write since
    cleared     \* history: the pattern of the last Clear that returned nil with no write since it started

vars == <<Separator, store, inUse, waitq, call, written, deleted, cleared>>

-----------------------------------------------------------------------------
(* Bounds of the model *)

\* buckets of the store's key table, the unit a SCAN page is made of
NSlots == 2
\* keys the store holds before SET answers out-of-memory
MaxKeys == 2
-----------------------------------------------------------------------------
(* Program constants *)

DefaultSeparator == <<":">>

MaxActive == 10

\* Wait left at its zero value
PoolNoWait == FALSE

\* Wait: true
PoolWait == TRUE

\* time.Second, in nanoseconds
Second == 1000000000

-----------------------------------------------------------------------------
(* Strings *)

RECURSIVE Join(_, _)
\* strings.Join(namespace, sep)
Join(elems, sep) ==
    IF Len(elems) = 0 THEN <<>>
    ELSE IF Len(elems) = 1 THEN elems[1]
    ELSE elems[1] \o sep \o Join(Tail(elems), sep)

\* the namespace left out of the key
EffectiveKeyBare(key, namespace, sep) == key

\* the store key addressed by (key, namespace):
\*   ns := key; if len(namespace) > 0 { ns = fmt.Sprintf("%s:%s", strings.Join(namespace, Separator), ns) }
EffectiveKey(key, namespace, sep) ==
    IF Len(namespace) > 0 THEN Join(namespace, sep) \o <<":">> \o key ELSE key

RECURSIVE Sprintf(_)
\* fmt.Sprintf(format) with no operand: "%%" prints "%", a verb with no operand
\* prints "%!v(MISSING)", a lone "%" at the end prints "%!(NOVERB)"
Sprintf(format) ==
    IF Len(format) = 0 THEN <<>>
    ELSE IF format[1] # "%" THEN <<format[1]>> \o Sprintf(Tail(format))
    ELSE IF Len(format) = 1 THEN <<"%", "!", "(", "N", "O", "V", "E", "R", "B", ")">>
    ELSE IF format[2] = "%" THEN <<"%">> \o Sprintf(Tail(Tail(format)))
    ELSE <<"%", "!", format[2], "(", "M", "I", "S", "S", "I", "N", "G", ")">>
             \o Sprintf(Tail(Tail(format)))

\* the MATCH argument of the SCANs of Clear and GetKeys: fmt.Sprintf(ns)
MatchArg(pattern, namespace, sep) == Sprintf(EffectiveKey(pattern, namespace, sep))

RECURSIVE Match(_, _)
\* the store's glob match of a key against a MATCH pattern ("*" and "?" wildcards)
Match(pattern, s) ==
    IF Len(pattern) = 0 THEN Len(s) = 0
    ELSE IF pattern[1] = "*"
         THEN \/ Match(Tail(pattern), s)
              \/ Len(s) > 0 /\ Match(pattern, Tail(s))
    ELSE /\ Len(s) > 0
         /\ pattern[1] = "?" \/ pattern[1] = s[1]
         /\ Match(Tail(pattern), Tail(s))

-----------------------------------------------------------------------------
(* Go values, the arguments redigo writes and the replies it converts *)

Nil == [t |-> "nil", v |-> <<>>]

Digits == <<"0", "1", "2", "3", "4", "5", "6", "7", "8", "9">>

RECURSIVE Itoa(_)
\* strconv decimal form of n >= 0
Itoa(n) == IF n < 10 THEN <<Digits[n + 1]>> ELSE Itoa(n \div 10) \o <<Digits[(n % 10) + 1]>>

IsDigit(c) == \E i \in 1..10 : Digits[i] = c

DigitVal(c) == (CHOOSE i \in 1..10 : Digits[i] = c) - 1

RECURSIVE Atoi(_, _)
Atoi(s, acc) == IF Len(s) = 0 THEN acc ELSE Atoi(Tail(s), acc * 10 + DigitVal(s[1]))

\* the bulk string redigo writes for a command argument
Encode(val) ==
    CASE val.t = "string" -> val.v
      [] val.t = "bytes"  -> val.v
      [] val.t = "int"    -> Itoa(val.v)
      [] val.t = "bool"   -> IF val.v THEN <<"1">> ELSE <<"0">>
      [] OTHER            -> <<>>

\* a GET reply: the bulk string as []byte, or nil
BulkReply(b) == [t |-> "bytes", v |-> b]

TrueWords == {<<"1">>, <<"t">>, <<"T">>, <<"t", "r", "u", "e">>, <<"T", "R", "U", "E">>, <<"T", "r", "u", "e">>}
FalseWords == {<<"0">>, <<"f">>, <<"F">>, <<"f", "a", "l", "s", "e">>, <<"F", "A", "L", "S", "E">>, <<"F", "a", "l", "s", "e">>}

\* a conversion that passes the error of the command on and reports none of its own
ConvertZero(op, reply, err) == [ret |-> Nil, err |-> err]

\* redis.Bool / redis.Bytes / redis.Int / redis.String applied to (reply, err):
\* the pair [ret, err] the typed getter returns
Convert(op, reply, err) ==
    IF err # "nil" THEN [ret |-> Nil, err |-> err]
    ELSE IF op = "Get" THEN [ret |-> reply, err |-> "nil"]
    ELSE IF reply.t = "nil" THEN [ret |-> Nil, err |-> "ErrNil"]
    ELSE CASE op = "GetString" -> [ret |-> [t |-> "string", v |-> reply.v], err |-> "nil"]
           [] op = "GetBytes"  -> [ret |-> [t |-> "bytes", v |-> reply.v], err |-> "nil"]
           [] op = "GetInt"    ->
                IF Len(reply.v) > 0 /\ \A i \in 1..Len(reply.v) : IsDigit(reply.v[i])
                THEN [ret |-> [t |-> "int", v |-> Atoi(reply.v, 0)], err |-> "nil"]
                ELSE [ret |-> Nil, err |-> "ConversionError"]
           [] op = "GetBool"   ->
                IF reply.v \in TrueWords THEN [ret |-> [t |-> "bool", v |-> TRUE], err |-> "nil"]
                ELSE IF reply.v \in FalseWords THEN [ret |-> [t |-> "bool", v |-> FALSE], err |-> "nil"]
                ELSE [ret |-> Nil, err |-> "ConversionError"]

\* Go's integer division, which truncates toward zero
Quot(a, b) == IF a >= 0 THEN a \div b ELSE -((-a) \div b)

\* the duration rounded to the nearest second
TTLRounded(duration) ==
    Quot(duration, Second) + (IF duration % Second >= Second \div 2 THEN 1 ELSE 0)

\* the TTL argument of SETEX: int(duration / time.Second)
TTLSeconds(duration) == Quot(duration, Second)

-----------------------------------------------------------------------------
(* The store: what the commands the client sends do *)

Put(f, k, x) == [y \in DOMAIN f \cup {k} |-> IF y = k THEN x ELSE f[y]]

Drop(f, ks) == [y \in DOMAIN f \ ks |-> f[y]]

Range(s) == {s[i] : i \in 1..Len(s)}

RECURSIVE SeqOf(_)
\* the keys of a page, in the server's order
SeqOf(S) == IF S = {} THEN <<>> ELSE LET x == CHOOSE y \in S : TRUE IN <<x>> \o SeqOf(S \ {x})

Alphabet == <<"a", "n", ":", "m", "-", "x", "%", "*", "1">>

CharCode(c) == IF \E i \in DOMAIN Alphabet : Alphabet[i] = c
               THEN CHOOSE i \in DOMAIN Alphabet : Alphabet[i] = c ELSE 0

RECURSIVE Hash(_)
Hash(k) == IF Len(k) = 0 THEN 0 ELSE CharCode(k[1]) + Hash(Tail(k))

\* the bucket of the store's key table a key lives in
Slot(k) == Hash(k) % NSlots

\* GET key
SrvGet(st, k) == IF k \in DOMAIN st THEN BulkReply(st[k].val) ELSE Nil

\* SET and SETEX are refused (out of memory) when the store is full and the key is new
SrvHasRoom(st, k) == k \in DOMAIN st \/ Cardinality(DOMAIN st) < MaxKeys

\* SET key value: overwrites, and discards any TTL
SrvSet(st, k, b) == Put(st, k, [val |-> b, ttl |-> 0])

\* SETEX key seconds value: refused unless seconds > 0
SrvSetEx(st, k, seconds, b) == Put(st, k, [val |-> b, ttl |-> seconds])

\* EXISTS key, converted by redis.Bool
SrvExists(st, k) == [t |-> "bool", v |-> (k \in DOMAIN st)]

\* every key of the store removed
SrvDelAll(st, ks) == Drop(st, DOMAIN st)

\* DEL / UNLINK keys...
SrvDel(st, ks) == Drop(st, ks)

\* SCAN cursor MATCH pattern: the server walks the buckets lo..hi-1, where
\* cursor < hi (progress) and lo <= cursor (a rehash makes it walk a bucket
\* again), and answers the matching keys there and the next cursor, 0 at the end
ScanKeys(st, pattern, lo, hi) ==
    SeqOf({k \in DOMAIN st : Slot(k) >= lo /\ Slot(k) < hi /\ Match(pattern, k)})

ScanCursor(hi) == IF hi >= NSlots THEN 0 ELSE hi

ScanRange(cursor, lo, hi) ==
    /\ hi > cursor /\ hi <= NSlots
    /\ lo <= cursor /\ lo >= cursor - 1 /\ lo >= 0

-----------------------------------------------------------------------------
(* The client *)

Callers == 1..(MaxActive + 1)

GetOps == {"Get", "GetBool", "GetBytes", "GetInt", "GetString"}
ClearOps == {"Clear", "ClearAll"}
KeysOps == {"GetKeys", "GetAllKeys"}

Idle == [pc |-> "idle", op |-> "none", client |-> "none", key |-> <<>>, namespace |-> <<>>,
         value |-> Nil, duration |-> 0, ns |-> <<>>, conn |-> "none", cursor |-> 0,
         page |-> <<>>, result |-> <<>>, sent |-> <<>>, replies |-> <<>>, dirty |-> FALSE,
         removed |-> {}, failed |-> FALSE, untouched |-> {}, touched |-> {},
         probes |-> 0,
         ret |-> Nil, err |-> "nil"]

\* the check of the receiver alone
NotInitializedNil(client) == client = "nil"

\* if c == nil || c.pool == nil { return NotInitializedError }
NotInitialized(client) == client = "nil" \/ client = "nopool"

\* the page appended to what the slice held
ScanAppend(slice, page) == slice \o page

\* values, &cursor, &keys: redis.Scan stores the page into the slice, replacing its content
ScanInto(slice, page) == page

\* the error of a failed command dropped
ErrorSwallowed(bad, kind) == "nil"

\* if err != nil { return fmt.Errorf(..., err) }: the error an operation returns
\* after a command of its own
ErrorOf(bad, kind) == IF bad THEN kind ELSE "nil"

\* a loop that goes on after a failed command
StopsNever(bad) == FALSE

\* whether the loop of Clear and GetKeys returns after a command: if err != nil { return }
StopsAt(bad) == bad

\* a loop that breaks after its first page
ScanDoneAlways(cursor) == TRUE

\* a loop that never breaks
ScanDoneNever(cursor) == FALSE

\* if cursor == 0 { break }
ScanDone(cursor) == cursor = 0

\* the first key of the page alone
UnlinkArgsFirst(keys) == <<keys[1]>>

\* the keys of r.Do("UNLINK", keys...)
UnlinkArgs(keys) == keys

\* the command is written only on a live connection; an errorConn's Do fails at once
Sent(c, cmd) == IF c.conn = "active" THEN Append(c.sent, cmd) ELSE c.sent

Failed(c, fail) == c.conn # "active" \/ fail

\* a write by any caller is noted in the Clear calls in flight
MarkWrite(cs) ==
    [q \in DOMAIN cs |->
        IF cs[q].op \in ClearOps /\ cs[q].pc \in {"blocked", "dial", "run", "unlink"}
        THEN [cs[q] EXCEPT !.dirty = TRUE] ELSE cs[q]]

\* a change of the keys ks by caller p is noted in the scans the other callers are in
Touch(cs, p, ks) ==
    [q \in DOMAIN cs |->
        IF q # p /\ cs[q].pc \in {"run", "unlink"} /\ Len(cs[q].replies) > 0
                 /\ cs[q].op \in ClearOps \cup KeysOps
        THEN [cs[q] EXCEPT !.untouched = cs[q].untouched \ ks,
                           !.touched = cs[q].touched \cup ks]
        ELSE cs[q]]

NotCleared == [on |-> FALSE, pat |-> <<>>, removed |-> FALSE]

\* the slot of the connection goes back to the pool: to the longest-parked caller if any
GiveBack(cs) ==
    /\ waitq' = IF waitq # <<>> THEN Tail(waitq) ELSE waitq
    /\ inUse' = IF waitq # <<>> THEN inUse ELSE inUse - 1
    /\ call' = IF waitq # <<>> THEN [cs EXCEPT ![Head(waitq)].pc = "dial"] ELSE cs

\* r.Close() on the success path alone
ClosesOnSuccess(err) == err = "nil"

\* whether the deferred r.Close() of a returning call runs
ClosesOn(err) == TRUE

\* return rec's result after the deferred r.Close()
Return(cs, p, rec) ==
    LET done == [cs EXCEPT ![p] = [rec EXCEPT !.pc = "done",
                                             !.conn = IF ClosesOn(rec.err) THEN "closed" ELSE rec.conn]]
    IN IF call[p].conn = "active" /\ ClosesOn(rec.err)
       THEN GiveBack(done)
       ELSE call' = done /\ UNCHANGED <<inUse, waitq>>

\* the dial of pool.Get once a slot is held; a failed dial gives the slot back
Dialed(cs, p, dial) ==
    IF dial
    THEN /\ call' = [cs EXCEPT ![p].pc = "run", ![p].conn = "active"]
         /\ UNCHANGED waitq
    ELSE GiveBack([cs EXCEPT ![p].pc = "run", ![p].conn = "error"])

\* the start of every operation: the nil check, then r := c.pool.Get() and ns;
\* probes counts the idle connections pool.Get tried first and dropped because the
\* PING of TestOnBorrow failed on them
Borrow(p, inv, client, dial, probes) ==
    /\ call[p].pc = "idle"
    /\ LET rec == [Idle EXCEPT !.op = inv.op, !.client = client, !.key = inv.key,
                               !.namespace = inv.namespace, !.value = inv.value,
                               !.duration = inv.duration,
                               !.ns = EffectiveKey(inv.key, inv.namespace, Separator)]
       IN IF NotInitialized(client)
          THEN /\ call' = [call EXCEPT ![p] = [rec EXCEPT !.pc = "done", !.ns = <<>>,
                                                          !.err = "NotInitialized"]]
               /\ UNCHANGED <<inUse, waitq>>
          ELSE IF client # "cache"
          THEN \* c.pool.Get() through a nil pointer
               /\ call' = [call EXCEPT ![p] = [rec EXCEPT !.pc = "done", !.ns = <<>>,
                                                          !.err = "panic"]]
               /\ UNCHANGED <<inUse, waitq>>
          ELSE IF inUse < MaxActive
          THEN /\ inUse' = IF dial THEN inUse + 1 ELSE inUse
               /\ call' = [call EXCEPT ![p] = [rec EXCEPT !.pc = "run", !.probes = probes,
                                  !.conn = IF dial THEN "active" ELSE "error"]]
               /\ UNCHANGED waitq
          ELSE IF PoolWait
          THEN /\ call' = [call EXCEPT ![p] = [rec EXCEPT !.pc = "blocked"]]
               /\ waitq' = Append(waitq, p)
               /\ UNCHANGED inUse
          ELSE /\ call' = [call EXCEPT ![p] = [rec EXCEPT !.pc = "run", !.conn = "exhausted"]]
               /\ UNCHANGED <<inUse, waitq>>
    /\ UNCHANGED <<Separator, store, written, deleted, cleared>>

\* an operation whose pool.Get finds no idle connection, or one that answers the PING
Call(p, inv, client, dial) == Borrow(p, inv, client, dial, 0)

\* an operation whose pool.Get finds an idle connection left by an earlier call that
\* fails the PING of TestOnBorrow: the pool closes it and dials
Reborrow(p, inv, dial) == Borrow(p, inv, "cache", dial, 1)

\* a parked caller that was handed a slot dials
Dial(p, dial) ==
    /\ call[p].pc = "dial"
    /\ IF dial THEN inUse' = inUse /\ Dialed(call, p, TRUE) ELSE Dialed(call, p, FALSE)
    /\ UNCHANGED <<Separator, store, written, deleted, cleared>>

\* the key argument of each command: r.Do("GET", ns), r.Do("SET", ns, value),
\* r.Do("SETEX", ns, ...), r.Do("EXISTS", ns), r.Do("DEL", ns)
GetTarget(c) == c.ns

\* a command sent with the base key in place of ns
SetTargetBare(c) == c.key

SetTarget(c) == c.ns

SetExTarget(c) == c.ns

ExistsTarget(c) == c.ns

DeleteTargetBare(c) == c.key

DeleteTarget(c) == c.ns

\* Ping: r.Do("PING")
DoPing(p, fail) ==
    /\ call[p].pc = "run" /\ call[p].op = "Ping"
    /\ LET c == call[p]
           bad == Failed(c, fail)
       IN Return(call, p, [c EXCEPT !.sent = Sent(c, [cmd |-> "PING"]),
                                    !.failed = bad,
                                    !.err = ErrorOf(bad, "ConnectionError")])
    /\ UNCHANGED <<Separator, store, written, deleted, cleared>>

\* Get and the typed getters: r.Do("GET", ns), then the conversion of the reply
DoGet(p, fail) ==
    /\ call[p].pc = "run" /\ call[p].op \in GetOps
    /\ LET c == call[p]
           bad == Failed(c, fail)
           out == Convert(c.op, SrvGet(store, GetTarget(c)), ErrorOf(bad, "CommandError"))
       IN Return(call, p, [c EXCEPT !.sent = Sent(c, [cmd |-> "GET", key |-> GetTarget(c)]),
                                    !.failed = bad,
                                    !.ret = out.ret, !.err = out.err])
    /\ UNCHANGED <<Separator, store, written, deleted, cleared>>

\* Set: r.Do("SET", ns, value)
DoSet(p, fail) ==
    /\ call[p].pc = "run" /\ call[p].op = "Set"
    /\ LET c == call[p]
           bad == Failed(c, fail) \/ ~SrvHasRoom(store, SetTarget(c))
           rec == [c EXCEPT !.sent = Sent(c, [cmd |-> "SET", key |-> SetTarget(c), value |-> Encode(c.value)]),
                            !.failed = bad,
                            !.err = ErrorOf(bad, "CommandError")]
       IN /\ store' = IF bad THEN store ELSE SrvSet(store, SetTarget(c), Encode(c.value))
          /\ written' = IF bad THEN Drop(written, {c.ns}) ELSE Put(written, c.ns, c.value)
          /\ deleted' = IF bad THEN deleted ELSE deleted \ {c.ns}
          /\ cleared' = IF bad THEN cleared ELSE NotCleared
          /\ Return(IF bad THEN call ELSE Touch(MarkWrite(call), p, {SetTarget(c)}), p, rec)
    /\ UNCHANGED Separator

\* SetEx: r.Do("SETEX", ns, int(duration/time.Second), value)
DoSetEx(p, fail) ==
    /\ call[p].pc = "run" /\ call[p].op = "SetEx"
    /\ LET c == call[p]
           ttl == TTLSeconds(c.duration)
           bad == Failed(c, fail) \/ ~SrvHasRoom(store, SetExTarget(c)) \/ ttl <= 0
           rec == [c EXCEPT !.sent = Sent(c, [cmd |-> "SETEX", key |-> SetExTarget(c), seconds |-> ttl,
                                              value |-> Encode(c.value)]),
                            !.failed = bad,
                            !.err = ErrorOf(bad, "CommandError")]
       IN /\ store' = IF bad THEN store ELSE SrvSetEx(store, SetExTarget(c), ttl, Encode(c.value))
          /\ written' = Drop(written, {c.ns})
          /\ deleted' = IF bad THEN deleted ELSE deleted \ {c.ns}
          /\ cleared' = IF bad THEN cleared ELSE NotCleared
          /\ Return(IF bad THEN call ELSE Touch(MarkWrite(call), p, {SetExTarget(c)}), p, rec)
    /\ UNCHANGED Separator

\* Exists: redis.Bool(r.Do("EXISTS", ns))
DoExists(p, fail) ==
    /\ call[p].pc = "run" /\ call[p].op = "Exists"
    /\ LET c == call[p]
           bad == Failed(c, fail)
       IN Return(call, p, [c EXCEPT !.sent = Sent(c, [cmd |-> "EXISTS", key |-> ExistsTarget(c)]),
                                    !.failed = bad,
                                    !.ret = IF bad THEN [t |-> "bool", v |-> FALSE]
                                            ELSE SrvExists(store, ExistsTarget(c)),
                                    !.err = ErrorOf(bad, "CommandError")])
    /\ UNCHANGED <<Separator, store, written, deleted, cleared>>

\* Delete: r.Do("DEL", ns); the reply, the number of keys removed, is dropped
DoDelete(p, fail) ==
    /\ call[p].pc = "run" /\ call[p].op = "Delete"
    /\ LET c == call[p]
           bad == Failed(c, fail)
           count == Cardinality({DeleteTarget(c)} \cap DOMAIN store)
       IN /\ store' = IF bad THEN store ELSE SrvDel(store, {DeleteTarget(c)})
          /\ written' = Drop(written, {c.ns})
          /\ deleted' = IF bad THEN deleted ELSE deleted \cup {c.ns}
          /\ Return(IF bad THEN call ELSE Touch(call, p, {DeleteTarget(c)}), p,
                    [c EXCEPT !.sent = Sent(c, [cmd |-> "DEL", key |-> DeleteTarget(c)]),
                              !.replies = IF bad THEN <<>> ELSE <<[count |-> count]>>,
                              !.failed = bad,
                              !.err = ErrorOf(bad, "CommandError")])
    /\ UNCHANGED <<Separator, cleared>>

\* a page of one key left alone
UnlinksPageOfMany(page) == Len(page) > 1

\* whether the loop of Clear unlinks the page it has just scanned
UnlinksPage(page) == Len(page) > 0

\* the history of a Clear that returns nil: its pattern, unless a write came in meanwhile
ClearedBy(rec) ==
    IF rec.dirty THEN cleared
    ELSE [on |-> TRUE, pat |-> Sprintf(rec.ns), removed |-> rec.removed # {}]

\* Clear, one turn of the loop up to the UNLINK:
\*   redis.Values(r.Do("SCAN", cursor, "MATCH", fmt.Sprintf(ns))), redis.Scan(values, &cursor, &keys)
ClearScan(p, outcome, lo, hi) ==
    /\ call[p].pc = "run" /\ call[p].op \in ClearOps
    /\ ScanRange(call[p].cursor, lo, hi)
    /\ LET c == call[p]
           match == Sprintf(c.ns)
           sent == Sent(c, [cmd |-> "SCAN", cursor |-> c.cursor, match |-> match])
           bad == Failed(c, outcome # "ok")
           kind == IF c.conn = "active" /\ outcome = "badreply" THEN "ParseError" ELSE "CommandError"
           keys == ScanInto(c.page, ScanKeys(store, match, lo, hi))
           first == [c EXCEPT !.untouched = IF Len(c.replies) = 0 THEN DOMAIN store ELSE c.untouched]
           rec == IF bad THEN [first EXCEPT !.sent = sent, !.failed = TRUE]
                  ELSE [first EXCEPT !.sent = sent, !.cursor = ScanCursor(hi), !.page = keys,
                            !.replies = Append(c.replies, [cursor |-> ScanCursor(hi),
                                                           keys |-> ScanKeys(store, match, lo, hi)])]
       IN IF StopsAt(bad)
          THEN /\ Return(call, p, [rec EXCEPT !.err = ErrorOf(bad, kind)])
               /\ UNCHANGED cleared
          ELSE IF UnlinksPage(rec.page)
          THEN /\ call' = [call EXCEPT ![p] = [rec EXCEPT !.pc = "unlink"]]
               /\ UNCHANGED <<inUse, waitq, cleared>>
          ELSE IF ScanDone(rec.cursor)
          THEN /\ Return(call, p, rec)
               /\ cleared' = ClearedBy(rec)
          ELSE /\ call' = [call EXCEPT ![p] = rec]
               /\ UNCHANGED <<inUse, waitq, cleared>>
    /\ UNCHANGED <<Separator, store, written, deleted>>

\* Clear, the rest of the turn: r.Do("UNLINK", keys...), then the test of the cursor
ClearUnlink(p, fail) ==
    /\ call[p].pc = "unlink"
    /\ LET c == call[p]
           bad == Failed(c, fail)
           args == UnlinkArgs(c.page)
           rec == [c EXCEPT !.sent = Sent(c, [cmd |-> "UNLINK", keys |-> args]),
                            !.failed = bad,
                            !.removed = IF bad THEN c.removed
                                        ELSE c.removed \cup (Range(args) \cap DOMAIN store)]
           cs == IF bad THEN call ELSE Touch(call, p, Range(args))
       IN /\ store' = IF bad THEN store ELSE SrvDel(store, Range(args))
          /\ written' = Drop(written, Range(args))
          /\ IF StopsAt(bad)
             THEN /\ Return(cs, p, [rec EXCEPT !.err = ErrorOf(bad, "CommandError")])
                  /\ UNCHANGED cleared
             ELSE IF ScanDone(c.cursor)
             THEN /\ Return(cs, p, rec)
                  /\ cleared' = ClearedBy(rec)
             ELSE /\ call' = [cs EXCEPT ![p] = [rec EXCEPT !.pc = "run"]]
                  /\ UNCHANGED <<inUse, waitq, cleared>>
    /\ UNCHANGED <<Separator, deleted>>

\* GetKeys, one turn of the loop:
\*   redis.Values(r.Do("SCAN", ...)), redis.Scan(values, &cursor, &items), keys = append(keys, items...)
GetKeysScan(p, outcome, lo, hi) ==
    /\ call[p].pc = "run" /\ call[p].op \in KeysOps
    /\ ScanRange(call[p].cursor, lo, hi)
    /\ LET c == call[p]
           match == Sprintf(c.ns)
           sent == Sent(c, [cmd |-> "SCAN", cursor |-> c.cursor, match |-> match])
           bad == Failed(c, outcome # "ok")
           kind == IF c.conn = "active" /\ outcome = "badreply" THEN "ParseError" ELSE "CommandError"
           items == ScanInto(c.page, ScanKeys(store, match, lo, hi))
           first == [c EXCEPT !.untouched = IF Len(c.replies) = 0 THEN DOMAIN store ELSE c.untouched]
           rec == IF bad THEN [first EXCEPT !.sent = sent, !.failed = TRUE]
                  ELSE [first EXCEPT !.sent = sent, !.cursor = ScanCursor(hi), !.page = items,
                            !.result = c.result \o items,
                            !.dirty = c.dirty \/ ~(cleared.on /\ cleared.pat = match),
                            !.replies = Append(c.replies, [cursor |-> ScanCursor(hi),
                                                           keys |-> ScanKeys(store, match, lo, hi)])]
       IN IF StopsAt(bad)
          THEN Return(call, p, [rec EXCEPT !.err = ErrorOf(bad, kind)])
          ELSE IF ScanDone(rec.cursor)
          THEN Return(call, p, [rec EXCEPT !.ret = [t |-> "keys", v |-> rec.result]])
          ELSE /\ call' = [call EXCEPT ![p] = rec]
               /\ UNCHANGED <<inUse, waitq>>
    /\ UNCHANGED <<Separator, store, written, deleted, cleared>>

\* the store drops a key whose TTL has run out
Expire(k) ==
    /\ k \in DOMAIN store /\ store[k].ttl > 0
    /\ store' = SrvDel(store, {k})
    /\ call' = Touch(call, 0, {k})
    /\ UNCHANGED <<Separator, inUse, waitq, written, deleted, cleared>>

\* the caller drops the result of the call it made
Finish(p) ==
    /\ call[p].pc = "done"
    /\ call' = [call EXCEPT ![p] = Idle]
    /\ UNCHANGED <<Separator, store, inUse, waitq, written, deleted, cleared>>

-----------------------------------------------------------------------------
(* Inputs *)

Separators == {DefaultSeparator, <<"-">>}

Absent == {"nil", "nopool"}

BaseKeys == {<<"a">>}

Namespaces == {<<>>, << <<"n">> >>, << <<"m">>, <<"n">> >>}

Values == {[t |-> "string", v |-> <<"x">>], [t |-> "bytes", v |-> <<"x">>],
           [t |-> "int", v |-> 1], [t |-> "bool", v |-> TRUE]}

Durations == {0 - (Second + Second \div 2), 0, Second - 1, Second, 2 * Second - 1}

Patterns == {<<"*">>, <<"a">>}

Outcomes == {"ok", "error", "badreply"}

Inv(op, key, namespace, value, duration) ==
    [op |-> op, key |-> key, namespace |-> namespace, value |-> value, duration |-> duration]

ReadInvocations(K, N) ==
    {Inv(op, k, n, Nil, 0) : op \in GetOps \cup {"Exists"}, k \in K, n \in N}

DeleteInvocations(K, N) == {Inv("Delete", k, n, Nil, 0) : k \in K, n \in N}

SetInvocations(K, N, V) == {Inv("Set", k, n, v, 0) : k \in K, n \in N, v \in V}

SetExInvocations(K, N, V, D) == {Inv("SetEx", k, n, v, d) : k \in K, n \in N, v \in V, d \in D}

ClearInvocations(P, N) == {Inv("Clear", pat, n, Nil, 0) : pat \in P, n \in N}

GetKeysInvocations(P, N) == {Inv("GetKeys", pat, n, Nil, 0) : pat \in P, n \in N}

\* ClearAll and GetAllKeys are Clear and GetKeys of the pattern "*"
AllInvocations(N) == {Inv(op, <<"*">>, n, Nil, 0) : op \in {"ClearAll", "GetAllKeys"}, n \in N}

PingInvocation == Inv("Ping", <<>>, <<>>, Nil, 0)

\* every operation of the client, once
EveryOperation ==
    {PingInvocation}
    \cup ReadInvocations({<<"a">>}, {<< <<"n">> >>})
    \cup DeleteInvocations({<<"a">>}, {<< <<"n">> >>})
    \cup SetInvocations({<<"a">>}, {<< <<"n">> >>}, {[t |-> "int", v |-> 1]})
    \cup SetExInvocations({<<"a">>}, {<< <<"n">> >>}, {[t |-> "int", v |-> 1]}, {Second})
    \cup ClearInvocations({<<"*">>}, {<< <<"n">> >>})
    \cup GetKeysInvocations({<<"*">>}, {<< <<"n">> >>})
    \cup AllInvocations({<< <<"n">> >>})

-----------------------------------------------------------------------------
(* Specifications *)

Init ==
    /\ Separator \in Separators
    /\ store = [k \in {} |-> [val |-> <<>>, ttl |-> 0]]
    /\ inUse = 0
    /\ waitq = <<>>
    /\ call = [p \in Callers |-> Idle]
    /\ written = [k \in {} |-> Nil]
    /\ deleted = {}
    /\ cleared = NotCleared

\* one caller; Ping, the getters, Set, SetEx, Exists and Delete on a client, and
\* every operation on an absent client
KeyValueInvocations ==
    {PingInvocation}
    \cup ReadInvocations(BaseKeys, Namespaces)
    \cup DeleteInvocations(BaseKeys, Namespaces)
    \cup SetInvocations(BaseKeys, Namespaces, Values)
    \cup SetExInvocations(BaseKeys, Namespaces, {[t |-> "int", v |-> 1]}, Durations)

Next ==
    \/ \E inv \in KeyValueInvocations, dial \in BOOLEAN : Call(1, inv, "cache", dial)
    \/ \E inv \in EveryOperation, client \in Absent : Call(1, inv, client, TRUE)
    \/ \E fail \in BOOLEAN : DoPing(1, fail)
    \/ \E fail \in BOOLEAN : DoGet(1, fail)
    \/ \E fail \in BOOLEAN : DoSet(1, fail)
    \/ \E fail \in BOOLEAN : DoSetEx(1, fail)
    \/ \E fail \in BOOLEAN : DoExists(1, fail)
    \/ \E fail \in BOOLEAN : DoDelete(1, fail)
    \/ Finish(1)
    \/ \E k \in DOMAIN store : Expire(k)

Spec == Init /\ [][Next]_vars

\* one caller; Set, Clear, ClearAll, GetKeys and GetAllKeys
ScanInvocations ==
    SetInvocations(BaseKeys, Namespaces, {[t |-> "string", v |-> <<"x">>]})
    \cup ClearInvocations(Patterns, Namespaces)
    \cup GetKeysInvocations(Patterns, Namespaces)
    \cup AllInvocations(Namespaces)

NextScan ==
    \/ \E inv \in ScanInvocations, dial \in BOOLEAN : Call(1, inv, "cache", dial)
    \/ \E fail \in BOOLEAN : DoSet(1, fail)
    \/ \E outcome \in Outcomes, lo \in 0..NSlots, hi \in 1..NSlots : ClearScan(1, outcome, lo, hi)
    \/ \E fail \in BOOLEAN : ClearUnlink(1, fail)
    \/ \E outcome \in Outcomes, lo \in 0..NSlots, hi \in 1..NSlots : GetKeysScan(1, outcome, lo, hi)
    \/ Finish(1)

SpecScan == Init /\ [][NextScan]_vars

\* a call in its loop gets its next command answered: the store answers every command
\* or the connection fails
FairSpecScan ==
    /\ SpecScan
    /\ WF_vars(\E outcome \in Outcomes, lo \in 0..NSlots, hi \in 1..NSlots : ClearScan(1, outcome, lo, hi))
    /\ WF_vars(\E fail \in BOOLEAN : ClearUnlink(1, fail))
    /\ WF_vars(\E outcome \in Outcomes, lo \in 0..NSlots, hi \in 1..NSlots : GetKeysScan(1, outcome, lo, hi))

\* two callers of one client; Set, Delete, Clear and GetKeys
ConcCallers == {1, 2}

ConcInvocations ==
    SetInvocations(BaseKeys, {<<>>}, {[t |-> "string", v |-> <<"x">>]})
    \cup DeleteInvocations(BaseKeys, {<<>>})
    \cup ClearInvocations({<<"*">>}, {<<>>})
    \cup GetKeysInvocations({<<"*">>}, {<<>>})

NextConc ==
    \E p \in ConcCallers :
        \/ \E inv \in ConcInvocations, dial \in BOOLEAN : Call(p, inv, "cache", dial)
        \/ \E fail \in BOOLEAN : DoSet(p, fail)
        \/ \E fail \in BOOLEAN : DoDelete(p, fail)
        \/ \E outcome \in Outcomes, lo \in 0..NSlots, hi \in 1..NSlots : ClearScan(p, outcome, lo, hi)
        \/ \E fail \in BOOLEAN : ClearUnlink(p, fail)
        \/ \E outcome \in Outcomes, lo \in 0..NSlots, hi \in 1..NSlots : GetKeysScan(p, outcome, lo, hi)
        \/ Finish(p)

SpecConc == Init /\ [][NextConc]_vars

\* one caller of a client that may have been used before; every operation once,
\* its borrow, its dial and its commands failing or not
NextEvery ==
    \/ \E inv \in EveryOperation, dial \in BOOLEAN : Call(1, inv, "cache", dial)
    \/ \E inv \in EveryOperation, dial \in BOOLEAN : Reborrow(1, inv, dial)
    \/ \E fail \in BOOLEAN : DoPing(1, fail)
    \/ \E fail \in BOOLEAN : DoGet(1, fail)
    \/ \E fail \in BOOLEAN : DoSet(1, fail)
    \/ \E fail \in BOOLEAN : DoSetEx(1, fail)
    \/ \E fail \in BOOLEAN : DoExists(1, fail)
    \/ \E fail \in BOOLEAN : DoDelete(1, fail)
    \/ \E outcome \in Outcomes, lo \in 0..NSlots, hi \in 1..NSlots : ClearScan(1, outcome, lo, hi)
    \/ \E fail \in BOOLEAN : ClearUnlink(1, fail)
    \/ \E outcome \in Outcomes, lo \in 0..NSlots, hi \in 1..NSlots : GetKeysScan(1, outcome, lo, hi)
    \/ Finish(1)

SpecEvery == Init /\ [][NextEvery]_vars

\* base keys and namespace segments that hold a separator
AliasKeys == {<<"a", ":", "b">>, <<"a", "-", "b">>}

\* Set, Exists and Delete of "a:b" and "a-b", of "b" under the namespace "a", and of
\* "k" under the namespaces ("a", "b"), ("a:b") and ("a-b")
AliasInvocations ==
    LET forms == {[key |-> k, namespace |-> <<>>] : k \in AliasKeys}
                 \cup {[key |-> <<"b">>, namespace |-> << <<"a">> >>]}
                 \cup {[key |-> <<"k">>, namespace |-> << <<"a">>, <<"b">> >>]}
                 \cup {[key |-> <<"k">>, namespace |-> <<k>>] : k \in AliasKeys}
    IN {Inv("Set", f.key, f.namespace, [t |-> "string", v |-> <<"x">>], 0) : f \in forms}
       \cup {Inv("Exists", f.key, f.namespace, Nil, 0) : f \in forms}
       \cup {Inv("Delete", f.key, f.namespace, Nil, 0) : f \in forms}

\* one caller; keys and namespaces that hold a separator
NextAlias ==
    \/ \E inv \in AliasInvocations : Call(1, inv, "cache", TRUE)
    \/ \E fail \in BOOLEAN : DoSet(1, fail)
    \/ \E fail \in BOOLEAN : DoExists(1, fail)
    \/ \E fail \in BOOLEAN : DoDelete(1, fail)
    \/ Finish(1)

SpecAlias == Init /\ [][NextAlias]_vars

\* namespaces and patterns with characters that fmt.Sprintf and MATCH give a meaning to
GlobNamespaces == {<<>>, << <<"n">> >>, << <<"%">> >>, << <<"*">> >>}

GlobPatterns == {<<"a", "%">>}

GlobInvocations ==
    SetInvocations(BaseKeys, GlobNamespaces, {[t |-> "string", v |-> <<"x">>]})
    \cup AllInvocations(GlobNamespaces)
    \cup ClearInvocations(GlobPatterns, {<<>>})
    \cup GetKeysInvocations(GlobPatterns, {<<>>})

\* one caller; Set, ClearAll, GetAllKeys, Clear and GetKeys, no command failing
NextGlob ==
    \/ \E inv \in GlobInvocations : Call(1, inv, "cache", TRUE)
    \/ DoSet(1, FALSE)
    \/ \E lo \in 0..NSlots, hi \in 1..NSlots : ClearScan(1, "ok", lo, hi)
    \/ ClearUnlink(1, FALSE)
    \/ \E lo \in 0..NSlots, hi \in 1..NSlots : GetKeysScan(1, "ok", lo, hi)
    \/ Finish(1)

SpecGlob == Init /\ [][NextGlob]_vars

\* a key of the first bucket of the store and one of the second
RaceKeys == {<<"n">>, <<"a">>}

RaceWrites ==
    SetInvocations(RaceKeys, {<<>>}, {[t |-> "string", v |-> <<"x">>]})
    \cup DeleteInvocations(RaceKeys, {<<>>})

\* three callers of one client: the first clears, the second lists, the third sets and
\* deletes keys meanwhile; every command succeeds
NextRace ==
    \/ \E inv \in ClearInvocations({<<"*">>}, {<<>>}) : Call(1, inv, "cache", TRUE)
    \/ \E inv \in GetKeysInvocations({<<"*">>}, {<<>>}) : Call(2, inv, "cache", TRUE)
    \/ \E inv \in RaceWrites : Call(3, inv, "cache", TRUE)
    \/ DoSet(3, FALSE)
    \/ DoDelete(3, FALSE)
    \/ \E lo \in 0..NSlots, hi \in 1..NSlots : ClearScan(1, "ok", lo, hi)
    \/ ClearUnlink(1, FALSE)
    \/ \E lo \in 0..NSlots, hi \in 1..NSlots : GetKeysScan(2, "ok", lo, hi)
    \/ \E p \in {1, 2, 3} : Finish(p)

SpecRace == Init /\ [][NextRace]_vars

\* Ping returns and its result is dropped: r.Do("PING"), the deferred r.Close()
PingForget(p) ==
    /\ call[p].pc = "run" /\ call[p].op = "Ping"
    /\ IF call[p].conn = "active" /\ ClosesOn("nil")
       THEN GiveBack([call EXCEPT ![p] = Idle])
       ELSE call' = [call EXCEPT ![p] = Idle] /\ UNCHANGED <<inUse, waitq>>
    /\ UNCHANGED <<Separator, store, written, deleted, cleared>>

\* the dial of a parked Ping that was handed a slot; when the dial fails the slot goes
\* back and Ping returns the error of the connection it never had, all without the store
DialPing(p, dial) ==
    IF dial
    THEN Dial(p, TRUE)
    ELSE /\ call[p].pc = "dial" /\ call[p].op = "Ping"
         /\ GiveBack([call EXCEPT ![p] = Idle])
         /\ UNCHANGED <<Separator, store, written, deleted, cleared>>

\* the client of NewCache before any call, the separator left at its default
InitPool == Init /\ Separator = DefaultSeparator

\* one caller more than the pool has connections, each calling Ping again and again
NextPool ==
    \E p \in Callers :
        \/ Call(p, PingInvocation, "cache", TRUE)
        \/ \E dial \in BOOLEAN : DialPing(p, dial)
        \/ PingForget(p)

SpecPool == InitPool /\ [][NextPool]_vars

\* the calls in flight go on: while some call is dialling a dial ends, and while some
\* call has sent its PING one of them returns
FairSpecPool ==
    /\ SpecPool
    /\ WF_vars(\E p \in Callers : PingForget(p))
    /\ WF_vars(\E p \in Callers : \E dial \in BOOLEAN : DialPing(p, dial))

-----------------------------------------------------------------------------
(* Claims about the key-value operations, under Spec *)

\* the step in which caller p's call of one of ops returns
Returns(p, ops) ==
    /\ call[p].pc = "run" /\ call'[p].pc = "done"
    /\ call[p].op \in ops

\* the typed getter that matches a Go value
Getter(val) ==
    CASE val.t = "string" -> "GetString"
      [] val.t = "bytes"  -> "GetBytes"
      [] val.t = "int"    -> "GetInt"
      [] val.t = "bool"   -> "GetBool"

\* C1 as stated: once Set(k, v, ns) has returned nil, and until a later Set, SetEx,
\* Delete or Clear touches the key, a Get(k, ns) that returns nil returns v, and so does
\* the typed getter of v's type.
C1_GetReturnsValue ==
    [][\A p \in Callers :
          (/\ Returns(p, {"Get"} \cup GetOps)
           /\ call[p].ns \in DOMAIN written
           /\ call[p].op \in {"Get", Getter(written[call[p].ns])}
           /\ call'[p].err = "nil")
          => call'[p].ret = written[call[p].ns]]_vars

\* C1 as amended: once Set(k, v, ns) has returned nil, and until a later Set, SetEx,
\* Delete or Clear touches the key, the typed getter of v's type returns v (the value of
\* the most recent Set) and never fails to convert, and Get returns the raw reply: the
\* bulk string v was written as, as a []byte.
C1_TypedGetterReturnsValue ==
    [][\A p \in Callers :
          (/\ Returns(p, GetOps)
           /\ call[p].ns \in DOMAIN written
           /\ call[p].op \in {"Get", Getter(written[call[p].ns])})
          => /\ call'[p].err \in {"nil", "CommandError"}
             /\ call'[p].err = "nil" =>
                   call'[p].ret = IF call[p].op = "Get"
                                  THEN [t |-> "bytes", v |-> Encode(written[call[p].ns])]
                                  ELSE written[call[p].ns]]_vars

\* a typed getter has returned the int that was Set under a namespace
C1_Witness ==
    \E p \in Callers :
        /\ call[p].pc = "done" /\ call[p].op = "GetInt" /\ call[p].err = "nil"
        /\ call[p].namespace # <<>>
        /\ call[p].ns \in DOMAIN written
        /\ call[p].ret = written[call[p].ns]
        /\ call[p].ret = [t |-> "int", v |-> 1]

\* what Get(key, namespace...) returns from store st
GetOf(st, key, namespace) == SrvGet(st, EffectiveKey(key, namespace, Separator))

\* C2: a Set under a non-empty namespace writes a store key other than the bare key and
\* leaves what Get(k) without a namespace returns unchanged; a Set without a namespace
\* leaves what Get(k, n) returns unchanged, for every non-empty namespace n.
C2_NamespaceIsolation ==
    [][\A p \in Callers :
          (Returns(p, {"Set"}) /\ call'[p].err = "nil")
          => IF call[p].namespace # <<>>
             THEN /\ call'[p].sent[1].key # call[p].key
                  /\ GetOf(store', call[p].key, <<>>) = GetOf(store, call[p].key, <<>>)
             ELSE \A n \in Namespaces \ {<<>>} :
                      GetOf(store', call[p].key, n) = GetOf(store, call[p].key, n)]_vars

\* a Set under a namespace has returned while the bare key holds another value
C2_Witness ==
    \E p \in Callers :
        /\ call[p].pc = "done" /\ call[p].op = "Set" /\ call[p].err = "nil"
        /\ call[p].namespace # <<>>
        /\ call[p].key \in DOMAIN store
        /\ call[p].ns \in DOMAIN store
        /\ store[call[p].key].val # store[call[p].ns].val

\* C3: after Delete(k, ns) has returned nil, and with no write to the key since,
\* Exists(k, ns) returns false and Get(k, ns) returns nil.
C3_DeleteThenAbsent ==
    [][\A p \in Callers :
          (/\ Returns(p, {"Exists", "Get"})
           /\ call[p].ns \in deleted
           /\ call'[p].err = "nil")
          => call'[p].ret = IF call[p].op = "Exists" THEN [t |-> "bool", v |-> FALSE] ELSE Nil]_vars

\* an Exists has answered false for a deleted key while another key is in the store
C3_Witness ==
    \E p \in Callers :
        /\ call[p].pc = "done" /\ call[p].op = "Exists" /\ call[p].err = "nil"
        /\ call[p].ns \in deleted
        /\ call[p].ret = [t |-> "bool", v |-> FALSE]
        /\ DOMAIN store # {}

\* C5: an operation on an absent client, or on a client with no pool, returns
\* NotInitialized without a crash, borrows no connection, sends no command and leaves
\* the store unchanged.
C5_NotInitialized ==
    /\ [](\A p \in Callers :
            (call[p].client \in Absent /\ call[p].pc # "idle")
            => /\ call[p].pc = "done"
               /\ call[p].err = "NotInitialized"
               /\ call[p].conn = "none"
               /\ call[p].sent = <<>>)
    /\ [][\A p \in Callers :
            (call[p].pc = "idle" /\ call'[p].pc # "idle" /\ call'[p].client \in Absent)
            => /\ store' = store
               /\ inUse' = inUse
               /\ waitq' = waitq]_vars

\* a typed getter has returned NotInitialized on a client with no pool, the store not empty
C5_Witness ==
    \E p \in Callers :
        /\ call[p].pc = "done" /\ call[p].client = "nopool" /\ call[p].op = "GetInt"
        /\ call[p].err = "NotInitialized"
        /\ DOMAIN store # {}

\* the store key the specification derives: the segments joined by the separator, then
\* the separator, then the base key
JoinedKey(key, namespace, sep) ==
    IF Len(namespace) > 0 THEN Join(namespace, sep) \o sep \o key ELSE key

\* C6: every command of Get, Set, SetEx, Exists and Delete addresses the store key
\* made of the segments joined by the separator, the separator and the base key, for
\* every value of the separator.
C6_EffectiveKey ==
    \A p \in Callers :
        \A i \in 1..Len(call[p].sent) :
            call[p].sent[i].cmd \in {"GET", "SET", "SETEX", "EXISTS", "DEL"}
            => call[p].sent[i].key = JoinedKey(call[p].key, call[p].namespace, Separator)

\* C9: the seconds SetEx passes to SETEX are the duration divided by one second,
\* truncated toward zero: less than a second gives 0, 1.999999999 s gives 1, one
\* second gives 1.
C9_TTLTruncated ==
    \A p \in Callers :
        \A i \in 1..Len(call[p].sent) :
            call[p].sent[i].cmd = "SETEX"
            => LET d == call[p].duration
                   n == call[p].sent[i].seconds
                   r == d - n * Second
               IN /\ d >= 0 => (r >= 0 /\ r < Second)
                  /\ d <= 0 => (r <= 0 /\ r > 0 - Second)
                  /\ (d >= 0 /\ d < Second) => n = 0
                  /\ d = 2 * Second - 1 => n = 1
                  /\ d = Second => n = 1

\* a SetEx of 1.999999999 s has stored its value with SETEX ... 1
C9_Witness ==
    \E p \in Callers :
        /\ call[p].pc = "done" /\ call[p].op = "SetEx" /\ call[p].err = "nil"
        /\ call[p].duration = 2 * Second - 1
        /\ call[p].sent = <<[cmd |-> "SETEX", key |-> call[p].ns, seconds |-> 1,
                             value |-> Encode(call[p].value)]>>
        /\ call[p].ns \in DOMAIN store /\ store[call[p].ns].ttl = 1

-----------------------------------------------------------------------------
(* Claims about Clear and GetKeys, under SpecScan *)

RECURSIVE Pages(_)
\* the keys of a sequence of SCAN replies, in page order
Pages(replies) == IF Len(replies) = 0 THEN <<>> ELSE replies[1].keys \o Pages(Tail(replies))

C10_GetKeysCursorAndPages ==
    \A p \in Callers :
        (call[p].op \in KeysOps /\ call[p].pc \in {"run", "done"})
        => LET c == call[p]
               n == Len(c.replies)
           IN /\ \A i \in 1..Len(c.sent) :
                    /\ c.sent[i].cmd = "SCAN"
                    /\ c.sent[i].cursor = IF i = 1 THEN 0 ELSE c.replies[i - 1].cursor
              /\ \A i \in 1..(n - 1) : c.replies[i].cursor # 0
              /\ c.pc = "run" => /\ Len(c.sent) = n
                                 /\ \A i \in 1..n : c.replies[i].cursor # 0
                                 /\ c.result = Pages(c.replies)
              /\ (c.pc = "done" /\ c.err = "nil")
                    => /\ n >= 1 /\ Len(c.sent) = n
                       /\ c.replies[n].cursor = 0
                       /\ c.ret = [t |-> "keys", v |-> Pages(c.replies)]
              /\ (c.pc = "done" /\ c.err # "nil") => Len(c.sent) <= n + 1

\* a GetKeys of two pages has returned a key twice
C10_Witness ==
    \E p \in Callers :
        /\ call[p].pc = "done" /\ call[p].op = "GetKeys" /\ call[p].err = "nil"
        /\ Len(call[p].replies) = 2
        /\ call[p].replies[1].keys # <<>>
        /\ \E i, j \in 1..Len(call[p].ret.v) : i < j /\ call[p].ret.v[i] = call[p].ret.v[j]

-----------------------------------------------------------------------------
(* Claims about the pooled connections *)

\* the calls that hold a slot of the pool
Holders == {p \in Callers : call[p].conn = "active" \/ call[p].pc = "dial"}

\* C7: a call that has returned, with or without an error, has given its connection
\* back; the connections held are those of the calls in flight that borrowed one, and
\* none is held when no call is in flight.
C7_ConnectionsReleased ==
    /\ inUse = Cardinality(Holders)
    /\ \A p \in Callers :
          /\ call[p].pc \in {"idle", "done"} => p \notin Holders
          /\ call[p].conn = "active" => call[p].pc \in {"run", "unlink"}
    /\ (\A p \in Callers : call[p].pc \in {"idle", "done"}) => inUse = 0

\* a Clear has returned the error of an UNLINK after a second SCAN, and the only
\* connection held is that of another call, in flight
C7_Witness ==
    \E p, q \in Callers :
        /\ call[p].pc = "done" /\ call[p].op = "Clear" /\ call[p].err = "CommandError"
        /\ Len(call[p].sent) = 3 /\ call[p].sent[3].cmd = "UNLINK"
        /\ call[p].conn = "closed"
        /\ call[q].pc = "run" /\ call[q].conn = "active"
        /\ inUse = 1

\* C8: at most 10 connections are borrowed at any moment; a caller that arrives while
\* 10 are borrowed is parked in the queue of the pool, never refused, and only then; a
\* parked caller leaves the queue only by being handed a connection; and, the calls in
\* flight returning, the queue empties again and again, so every parked caller goes on.
C8_PoolBoundedAndBlocking ==
    /\ [](inUse <= 10 /\ Cardinality({p \in Callers : call[p].conn = "active"}) <= 10)
    /\ [](\A p \in Callers :
            /\ call[p].conn # "exhausted"
            /\ call[p].pc = "blocked" <=> \E i \in 1..Len(waitq) : waitq[i] = p
            /\ call[p].pc = "blocked" => inUse = 10)
    /\ [][\A p \in Callers :
            (call[p].pc = "blocked" /\ call'[p].pc # "blocked")
            => (call'[p].pc = "dial" /\ inUse' = 10)]_vars
    /\ (waitq # <<>>) ~> (waitq = <<>>)

\* ten calls hold a connection and the eleventh caller is parked
C8_Witness ==
    \E p \in Callers :
        /\ call[p].pc = "blocked"
        /\ Cardinality({q \in Callers : call[q].conn = "active" /\ call[q].pc = "run"}) = 10
        /\ inUse = 10

-----------------------------------------------------------------------------
(* Claims about the loop of Clear, under SpecScan *)

RECURSIVE Shape(_)
\* the commands a call has sent, the cursor and the MATCH argument of the SCANs left out
Shape(sent) ==
    IF Len(sent) = 0 THEN <<>>
    ELSE <<IF sent[1].cmd = "SCAN" THEN [cmd |-> "SCAN"] ELSE sent[1]>> \o Shape(Tail(sent))

RECURSIVE PagedUnlinks(_)
\* a SCAN per reply, each followed by one UNLINK of the keys of the reply when it has any
PagedUnlinks(replies) ==
    IF Len(replies) = 0 THEN <<>>
    ELSE <<[cmd |-> "SCAN"]>>
         \o (IF Len(replies[1].keys) > 0
             THEN <<[cmd |-> "UNLINK", keys |-> replies[1].keys]>> ELSE <<>>)
         \o PagedUnlinks(Tail(replies))

\* C11: the commands of a Clear are, reply after reply, the SCAN and then, when the
\* reply has keys, one UNLINK of exactly these keys, sent before the next SCAN and
\* before Clear returns; a reply with no keys gets no UNLINK, and the only command
\* that may follow the last reply is the SCAN that failed.
C11_UnlinkPerPage ==
    \A p \in Callers :
        (call[p].op \in ClearOps /\ call[p].pc \in {"run", "unlink", "done"})
        => LET c == call[p]
               n == Len(c.replies)
               all == PagedUnlinks(c.replies)
           IN /\ c.pc = "run" => Shape(c.sent) = all
              /\ c.pc = "unlink" =>
                    /\ n >= 1 /\ c.replies[n].keys # <<>>
                    /\ Shape(c.sent) \o <<[cmd |-> "UNLINK", keys |-> c.replies[n].keys]>> = all
              /\ (c.pc = "done" /\ c.err = "nil") => Shape(c.sent) = all
              /\ (c.pc = "done" /\ c.err # "nil") =>
                    Shape(c.sent) \in {all, all \o <<[cmd |-> "SCAN"]>>}

\* a Clear has returned nil after a page with no key, for which it sent no UNLINK,
\* and a page of two keys, unlinked together
C11_Witness ==
    \E p \in Callers :
        /\ call[p].pc = "done" /\ call[p].op = "Clear" /\ call[p].err = "nil"
        /\ Len(call[p].replies) = 2 /\ Len(call[p].sent) = 3
        /\ call[p].replies[1].keys = <<>>
        /\ Len(call[p].replies[2].keys) = 2
        /\ call[p].sent[2].cmd = "SCAN"
        /\ call[p].sent[3] = [cmd |-> "UNLINK", keys |-> call[p].replies[2].keys]

RECURSIVE UnlinkedKeys(_)
\* the keys of the UNLINKs among the commands sent
UnlinkedKeys(sent) ==
    IF Len(sent) = 0 THEN {}
    ELSE (IF sent[1].cmd = "UNLINK" THEN Range(sent[1].keys) ELSE {}) \cup UnlinkedKeys(Tail(sent))

\* the commands sent before the last one
Front(sent) == IF Len(sent) = 0 THEN <<>> ELSE SubSeq(sent, 1, Len(sent) - 1)

\* C12: a Clear whose SCAN or UNLINK fails returns an error in that very step and
\* sends nothing more; the store is then what it was when Clear started less the keys
\* of the UNLINKs sent before the failing command: these stay deleted, and every
\* other key, the matching keys of the pages not yet processed among them, is there
\* with its value.
C12_PartialFailure ==
    /\ [](\A p \in Callers :
            call[p].op \in ClearOps =>
               /\ call[p].failed => (call[p].pc = "done" /\ call[p].err # "nil")
               /\ (call[p].pc = "done" /\ call[p].err # "nil") =>
                     /\ call[p].failed
                     /\ call[p].removed = UnlinkedKeys(Front(call[p].sent))
                     /\ DOMAIN store = call[p].untouched \ call[p].removed)
    /\ [][\A p \in Callers :
            call[p].op \in ClearOps =>
               /\ (call'[p].failed /\ ~call[p].failed) =>
                     /\ store' = store
                     /\ Len(call'[p].sent) <= Len(call[p].sent) + 1
               /\ call[p].pc \in {"run", "unlink"} =>
                     \A k \in DOMAIN store' : k \in DOMAIN store /\ store'[k] = store[k]
               /\ call[p].pc = "done" => (call'[p] = call[p] \/ call'[p] = Idle)]_vars

\* a Clear has returned the error of its second UNLINK: the keys of the first page
\* are gone and those of the second are still in the store
C12_Witness ==
    \E p \in Callers :
        /\ call[p].pc = "done" /\ call[p].op = "Clear" /\ call[p].err = "CommandError"
        /\ Len(call[p].sent) = 4 /\ call[p].sent[4].cmd = "UNLINK"
        /\ call[p].removed # {} /\ call[p].removed \cap DOMAIN store = {}
        /\ call[p].removed = Range(call[p].sent[2].keys)
        /\ Range(call[p].sent[4].keys) \subseteq DOMAIN store

-----------------------------------------------------------------------------
(* More claims about the key-value operations, under Spec *)

\* C13: a Delete that returns nil has removed its store key and nothing else: the
\* store is unchanged when the key was not there, every other key keeps its value
\* when it was; a Delete that returns an error got no reply and changed nothing, so
\* the reply "0 keys removed" is never an error.
C13_DeleteOnlyItsKey ==
    [][\A p \in Callers :
          Returns(p, {"Delete"})
          => LET k == EffectiveKey(call[p].key, call[p].namespace, Separator)
             IN /\ call'[p].err \in {"nil", "CommandError"}
                /\ call'[p].err = "nil" =>
                      /\ DOMAIN store' = DOMAIN store \ {k}
                      /\ \A j \in DOMAIN store' : store'[j] = store[j]
                      /\ call'[p].replies = <<[count |-> IF k \in DOMAIN store THEN 1 ELSE 0]>>
                /\ call'[p].err # "nil" => (call'[p].replies = <<>> /\ store' = store)
                /\ k \notin DOMAIN store => store' = store]_vars

\* a Delete of a key that was not in the store has returned nil, another key being there
C13_Witness ==
    \E p \in Callers :
        /\ call[p].pc = "done" /\ call[p].op = "Delete" /\ call[p].err = "nil"
        /\ call[p].replies = <<[count |-> 0]>>
        /\ call[p].sent = <<[cmd |-> "DEL", key |-> call[p].ns]>>
        /\ DOMAIN store # {}

\* C20: for a store key that is not in the store, a Get whose command went through
\* returns nil and no error, and a typed getter returns an error (that of the
\* command, or else ErrNil) and no value: never a zero value with a nil error.
C20_AbsentKey ==
    [][\A p \in Callers :
          (/\ Returns(p, GetOps)
           /\ EffectiveKey(call[p].key, call[p].namespace, Separator) \notin DOMAIN store)
          => /\ call'[p].ret = Nil
             /\ call'[p].failed => call'[p].err = "CommandError"
             /\ ~call'[p].failed =>
                   call'[p].err = IF call[p].op = "Get" THEN "nil" ELSE "ErrNil"]_vars

\* GetInt has returned ErrNil for a key that was deleted, another key being there
C20_Witness ==
    \E p \in Callers :
        /\ call[p].pc = "done" /\ call[p].op = "GetInt" /\ call[p].err = "ErrNil"
        /\ call[p].ret = Nil
        /\ call[p].ns \in deleted /\ call[p].ns \notin DOMAIN store
        /\ call[p].sent = <<[cmd |-> "GET", key |-> call[p].ns]>>
        /\ DOMAIN store # {}

-----------------------------------------------------------------------------
(* Claims about every operation, under SpecEvery *)

\* C16: a call one of whose own commands (the PING, GET, SET, SETEX, EXISTS, DEL,
\* SCAN or UNLINK of its r.Do) has failed returns in that very step, with an error;
\* the failing command was written once at most, the call sends nothing after it, and
\* no call returns nil after a failed command.  The PING of TestOnBorrow is the
\* pool's: a call whose borrow dropped an idle connection returns an error exactly
\* when its dial or a command of its own fails.
C16_NoErrorSwallowed ==
    /\ [](\A p \in Callers :
            /\ call[p].failed => (call[p].pc = "done" /\ call[p].err # "nil")
            /\ (call[p].pc = "done" /\ call[p].err = "nil") => ~call[p].failed
            /\ (call[p].pc = "done" /\ call[p].client = "cache" /\ ~call[p].failed)
                  => call[p].err \in {"nil", "ErrNil", "ConversionError"})
    /\ [][\A p \in Callers :
            /\ (call'[p].failed /\ ~call[p].failed) =>
                  /\ call[p].pc \in {"run", "unlink"}
                  /\ call'[p].sent = IF call[p].conn = "active"
                                     THEN Append(call[p].sent, call'[p].sent[Len(call'[p].sent)])
                                     ELSE call[p].sent
            /\ call[p].pc = "done" => (call'[p] = call[p] \/ call'[p] = Idle)]_vars

\* GetKeys, on a connection dialled after an idle one failed its PING, has returned
\* the error of its second SCAN, sent once
C16_Witness ==
    \E p \in Callers :
        /\ call[p].pc = "done" /\ call[p].op = "GetKeys" /\ call[p].failed
        /\ call[p].probes = 1
        /\ call[p].err = "CommandError"
        /\ Len(call[p].sent) = 2 /\ Len(call[p].replies) = 1
        /\ call[p].sent[2].cmd = "SCAN" /\ call[p].sent[2].cursor = call[p].replies[1].cursor
        /\ call[p].replies[1].keys # <<>>

-----------------------------------------------------------------------------
(* Claims about keys and patterns with special characters *)

\* C17: the separator is not escaped.  Exists of a key under a one-segment namespace
\* answers for the store key of the unsplit form, the segment, the separator and the
\* key as one base key without a namespace, so a Set or Delete through one form is
\* seen through the other; and a namespace of two segments addresses the store key
\* of the one segment made of the two joined by the separator.
C17_SeparatorNotEscaped ==
    [][\A p \in Callers :
          (Returns(p, {"Exists"}) /\ call'[p].err = "nil")
          => LET n == call[p].namespace
             IN /\ Len(n) = 1 =>
                      call'[p].ret.v = ((n[1] \o Separator \o call[p].key) \in DOMAIN store)
                /\ Len(n) = 2 =>
                      call'[p].sent[1].key
                          = EffectiveKey(call[p].key, <<n[1] \o Separator \o n[2]>>, Separator)]_vars

\* the store keys of a namespace start with what the code puts before the base key
HasPrefix(k, pre) == Len(k) >= Len(pre) /\ SubSeq(k, 1, Len(pre)) = pre

InNamespace(k, namespace) == HasPrefix(k, EffectiveKey(<<>>, namespace, Separator))

\* the step in which caller p's Clear or GetKeys, one of ops, returns
LoopReturns(p, ops) ==
    /\ call[p].pc \in {"run", "unlink"} /\ call'[p].pc = "done"
    /\ call[p].op \in ops

\* C14: ClearAll and GetAllKeys are Clear and GetKeys of "*"; a ClearAll(ns) that
\* returns nil has removed the keys of the namespace ns and no other key, a
\* GetAllKeys(ns) that returns nil returns the keys of the namespace ns and no other
\* key, and with no segment these are all the keys of the store.
C14_AllOfNamespace ==
    [][\A p \in Callers :
          (LoopReturns(p, {"ClearAll", "GetAllKeys"}) /\ call'[p].err = "nil")
          => /\ call[p].key = <<"*">>
             /\ call[p].op = "ClearAll" =>
                   /\ DOMAIN store' = {k \in call'[p].untouched : ~InNamespace(k, call[p].namespace)}
                   /\ \A k \in DOMAIN store' : store'[k] = store[k]
                   /\ call[p].namespace = <<>> => DOMAIN store' = {}
             /\ call[p].op = "GetAllKeys" =>
                   /\ Range(call'[p].ret.v) = {k \in DOMAIN store : InNamespace(k, call[p].namespace)}
                   /\ call[p].namespace = <<>> => Range(call'[p].ret.v) = DOMAIN store]_vars

\* C18: the MATCH argument of every SCAN of GetKeys and Clear is the effective
\* pattern of the call, the string ns of the code, character for character, and so
\* the same on every page.
C18_MatchArgument ==
    \A p \in Callers :
        \A i \in 1..Len(call[p].sent) :
            call[p].sent[i].cmd = "SCAN"
            => call[p].sent[i].match = EffectiveKey(call[p].key, call[p].namespace, Separator)

-----------------------------------------------------------------------------
(* Claims about scans next to writers, under SpecRace *)

\* C15: Clear and GetKeys are not atomic, yet a key that matches the pattern, is in
\* the store at the first SCAN of the call and is changed by no other caller until
\* the call returns nil, is gone when Clear returns and is in the list GetKeys returns.
C15_UntouchedKeysScanned ==
    [][\A p \in Callers :
          (LoopReturns(p, ClearOps \cup KeysOps) /\ call'[p].err = "nil")
          => \A k \in call'[p].untouched :
                Match(EffectiveKey(call[p].key, call[p].namespace, Separator), k)
                => IF call[p].op \in ClearOps
                   THEN k \notin DOMAIN store'
                   ELSE k \in Range(call'[p].ret.v)]_vars

\* a Clear has returned nil and a key another caller set during its scan is in the
\* store; a GetKeys has returned a key of its first page that another caller removed
\* during its scan and that is not in the store
C15_Witness ==
    /\ call[1].pc = "done" /\ call[1].op = "Clear" /\ call[1].err = "nil"
    /\ \E k \in DOMAIN store :
          /\ Match(call[1].ns, k)
          /\ k \in call[1].touched
    /\ call[2].pc = "done" /\ call[2].op = "GetKeys" /\ call[2].err = "nil"
    /\ Len(call[2].replies) = 2
    /\ \E k \in Range(call[2].replies[1].keys) :
          /\ k \in call[2].touched
          /\ k \in Range(call[2].ret.v)
          /\ k \notin DOMAIN store

-----------------------------------------------------------------------------
(* Claims about the end of the scan loops, under FairSpecScan *)

InLoop(c) == c.op \in ClearOps \cup KeysOps /\ c.pc \in {"run", "unlink"}

\* the last SCAN reply of the call carried cursor 0
LastPageSeen(c) == Len(c.replies) > 0 /\ c.replies[Len(c.replies)].cursor = 0

Sends(p, cmd) ==
    /\ call[p].op \in ClearOps \cup KeysOps
    /\ Len(call'[p].sent) = Len(call[p].sent) + 1
    /\ call'[p].sent[Len(call'[p].sent)].cmd = cmd

\* C19: Clear and GetKeys send no SCAN after a SCAN reply with cursor 0 or after a
\* failed command, and Clear sends after them only the UNLINK of the keys of that last
\* page; a call is in its loop only while no command failed and, past the UNLINK of the
\* page, no reply carried cursor 0; a call that returned without a failure saw cursor
\* 0, however many pages came before; every call in its loop returns.
C19_ScanLoopTerminates ==
    /\ [](\A p \in Callers :
            /\ InLoop(call[p]) => ~call[p].failed
            /\ (InLoop(call[p]) /\ call[p].pc = "run") => ~LastPageSeen(call[p])
            /\ (call[p].pc = "done" /\ call[p].op \in ClearOps \cup KeysOps
                    /\ call[p].conn = "active" /\ ~call[p].failed)
                => LastPageSeen(call[p]))
    /\ [][\A p \in Callers :
            /\ Sends(p, "SCAN") => (~call[p].failed /\ ~LastPageSeen(call[p]))
            /\ Sends(p, "UNLINK")
                => /\ ~call[p].failed /\ call[p].op \in ClearOps
                   /\ call[p].sent[Len(call[p].sent)].cmd = "SCAN"
                   /\ call'[p].sent[Len(call'[p].sent)].keys = call[p].replies[Len(call[p].replies)].keys
                   /\ call[p].replies[Len(call[p].replies)].keys # <<>>
            /\ (call[p].pc = "unlink" /\ LastPageSeen(call[p])) => call'[p].pc \in {"unlink", "done"}
            /\ (call[p].pc = "done" /\ call'[p].pc = "done") => call'[p] = call[p]]_vars
    /\ (\E p \in Callers : InLoop(call[p])) ~> (\A p \in Callers : ~InLoop(call[p]))

\* a Clear returned nil after as many pages as the store has buckets, the last of
\* them unlinked after the reply with cursor 0
C19_Witness ==
    \E p \in Callers :
        /\ call[p].pc = "done" /\ call[p].op = "Clear" /\ call[p].err = "nil"
        /\ Len(call[p].replies) >= 2
        /\ LastPageSeen(call[p])
        /\ call[p].sent[Len(call[p].sent)].cmd = "UNLINK"

\* C19 as stated: after a SCAN reply with cursor 0 or a failed command the call sends
\* no command at all.
C19_NoCommandAfterLastPage ==
    [][\A p \in Callers :
          (call[p].op \in ClearOps \cup KeysOps /\ Len(call'[p].sent) > Len(call[p].sent))
          => (~call[p].failed /\ ~LastPageSeen(call[p]))]_vars

====
